---- MODULE Spec2Model ----
(***************************************************************************)
(* uuscan: tokenless scanning helpers for recursive descent parsers.       *)
(* The model follows the current version of the header (src/uuscan.h,      *)
(* second half) and the example application (src/unnamed/part_000).        *)
(*                                                                         *)
(* Positions are 0-based offsets into the current line; the terminating    *)
(* NUL sits at offset Len(line).  Pointers that are NULL are NULLP.        *)
(***************************************************************************)
EXTENDS Integers, Sequences, FiniteSets, TLC

\* ------------------------------------------------------------------ bounds
MaxLineLen == 2     \* longest generated input line
MaxDepth   == 2     \* deepest nesting of grammar calls below main
MaxCalls   == 2     \* scanning calls and raises made by one run

\* ------------------------------------------------------- characters, lines
NUL   == "NUL"
NULLP == -1
NULLS == "NULL"

Alphabet == {"a", "1", " ", "+"}
Digits   == {"0", "1", "2", "3", "4", "5", "6", "7", "8", "9"}

Letters  == {"a", "d", "e", "f", "i", "m", "n", "o", "r", "x"}

isspace(c) == c \in {" ", "\t"}
isalpha(c) == c \in Letters
isdigit(c) == c \in Digits
isalnum(c) == isalpha(c) \/ isdigit(c)
isprint(c) == c # NUL

DigitVal(c) ==
    CASE c = "0" -> 0 [] c = "1" -> 1 [] c = "2" -> 2 [] c = "3" -> 3
      [] c = "4" -> 4 [] c = "5" -> 5 [] c = "6" -> 6 [] c = "7" -> 7
      [] c = "8" -> 8 [] c = "9" -> 9

SeqsUpTo(S, n) == UNION {[1..k -> S] : k \in 0..n}

\* lines of particular interest, longer than MaxLineLen: words and numbers
\* with something behind them, mixed blanks, numbers around INT_MAX, one of
\* them behind a sign
ExtraLines ==
    {<<"f", "o", "o", " ", "+", " ">>,
     <<"i", "f", "d", "e", "f", " ", "x">>,
     <<"i", "f", " ", "x">>,
     <<"1", "2", "3">>,
     <<"1", "2", " ">>,
     <<"\t", " ", "a">>,
     <<"2", "1", "4", "7", "4", "8", "3", "6", "4", "7">>,
     <<"2", "1", "4", "7", "4", "8", "3", "6", "4", "8">>,
     <<"0", "2", "1", "4", "7", "4", "8", "3", "6", "4", "7">>,
     <<"2", "1", "4", "7", "4", "8", "3", "6", "4", "7", "0">>,
     <<"+", "2", "1", "4", "7", "4", "8", "3", "6", "4", "8">>}

Lines == SeqsUpTo(Alphabet, MaxLineLen) \cup ExtraLines

\* *p for a pointer p into a NUL-terminated text
CharAt(l, p) == IF p >= 0 /\ p < Len(l) THEN l[p + 1]
                ELSE IF p = Len(l) THEN NUL ELSE "OOB"

\* strlen(lp)
strlen(l, p) == Len(l) - p

\* the C string as the text printf("%s") writes
RECURSIVE Text(_)
Text(s) == IF s = <<>> THEN "" ELSE Head(s) \o Text(Tail(s))

RECURSIVE skipspace(_, _)
skipspace(l, p) == IF isspace(CharAt(l, p)) THEN skipspace(l, p + 1) ELSE p

\* ---------------------------------------------------------------- targets
\* _Generic selects the matcher by the static type of x
Str(s)  == [k |-> "str",  s |-> s,     t |-> NULLP]
Chr(c)  == [k |-> "char", s |-> <<c>>, t |-> NULLP]
Term(t) == [k |-> "term", s |-> <<>>,  t |-> t]

\* UUTERMINALS of the example, and _app_: an application terminal written
\* with the success()/fail() macros whose decisions are not known
UUTERMINALS == <<"_ident_", "_int_", "_eol_", "_app_">>
UUTERMCOUNT == Len(UUTERMINALS)
TermId(n) == CHOOSE t \in 0..(UUTERMCOUNT - 1) : UUTERMINALS[t + 1] = n

INT_MAX == 2147483647

VARIABLES
    uu,        \* struct uuscan uu
    uuterms,   \* the terminal table
    pc,        \* where main is: "main", "getline", "parse", "handler", "exit"
    depth,     \* grammar functions active below main
    out,       \* the caller's res destination
    op,        \* the last library call made on this line
    ret,       \* what it returned: "true", "false", or "raise" when it jumped
    lp0,       \* uu.lp when it was entered
    nargs,     \* how many targets it was given
    matched,   \* how many of them __accept matched
    arg,       \* its arguments and the state it was entered in, when recorded
    calls,     \* library calls made so far
    raised,    \* longjmps to uu.errjmp so far
    raisedBy,  \* what made the last one: "uuerror" or "expect"
    rdepth,    \* the depth it was made at
    handled,   \* runs of the on_uuerror block so far
    hookRegs,  \* cleanup hooks registered so far
    hookRuns,  \* runs of a cleanup hook so far
    hookSaw,   \* uu.msg and uu.callback as the hook saw them when last run
    printed    \* what main has written to stdout since it read the line

call == <<op, ret, lp0, nargs, matched, calls, arg>>
errs == <<raised, raisedBy, rdepth, handled>>
hook == <<hookRegs, hookRuns, hookSaw>>

vars == <<uu, uuterms, pc, depth, out, call, errs, hook, printed>>

\* ------------------------------------------------- struct uuscan, uuterms
\* static struct uuscan uu, zero-initialised; msg is the text held by the
\* buffer uu.msg points to
uu0 == [line |-> <<>>, lp |-> NULLP, lpstart |-> NULLP, lpfail |-> NULLP,
        len |-> 0, ch |-> NUL, msg |-> "", failmsg |-> NULLS,
        callback |-> NULLS, errjmp |-> FALSE, i |-> 0]

\* a table whose slots are one terminal off
uuterms0_shifted ==
    [t \in 0..(UUTERMCOUNT - 1) |->
        [fn   |-> UUTERMINALS[((t + 1) % UUTERMCOUNT) + 1],
         name |-> UUTERMINALS[((t + 1) % UUTERMCOUNT) + 1]]]

\* uuterms[UUTERMCOUNT] = { [T]={ _scan_##T, #T }, ... }
uuterms0 == [t \in 0..(UUTERMCOUNT - 1) |->
                [fn |-> UUTERMINALS[t + 1], name |-> UUTERMINALS[t + 1]]]

\* the caller's res destination: a char, a char* or nothing written yet
out0 == [c |-> NUL, p |-> NULLP]

\* what one scan leaves behind: its result, the scan state, the caller's
\* destination and what each cleanup hook run during it could see
Outcome(r, u, o) ==
    [ret |-> r, u |-> u, out |-> o, hook |-> <<>>,
     n |-> IF r = "true" THEN 1 ELSE 0, by |-> "none"]

success(u, x)    == [u EXCEPT !.lp = x]

\* a fail that also moves the cursor to the fail position
_fail_1_moving(u, x) == [u EXCEPT !.lp = x, !.lpfail = x, !.failmsg = NULLS]

_fail_1(u, x)    == [u EXCEPT !.lpfail = x, !.failmsg = NULLS]
_fail_2(u, x, y) == [u EXCEPT !.lpfail = x, !.failmsg = y]

\* static char _uumsgbuf[80]
sizeof_uumsgbuf == 80

\* a position counted from 0
uuerrorpos_zero(u) == u.lpfail - 0

uuerrorpos(u) == (u.lpfail - 0) + 1

\* The cleanup hooks an application registers: "hook" does its work and
\* returns; "hook_uuerror" reports a failure of its own with
\* uuerror("cleanup failed").
Hooks == {"hook", "hook_uuerror"}

\* calls of uuerror the stack has room for, one inside the other
StackFrames == 3

\* uuerror(...) entered with k calls of it active: format, run the callback
\* and clear it when it has returned, longjmp.  uu.callback is still set while
\* the callback runs, so a uuerror made by the callback runs the callback
\* again, and so on until the stack is used up.
RECURSIVE uuerror_nested(_, _, _, _)
uuerror_nested(u, o, m, k) ==
    LET u1  == [u EXCEPT !.msg = m]
        saw == [msg |-> u1.msg, callback |-> u1.callback]
    IN  IF u1.callback = "hook_uuerror"
        THEN IF k < StackFrames
             THEN LET r == uuerror_nested(u1, o, "cleanup failed", k + 1)
                  IN  [r EXCEPT !.hook = <<saw>> \o r.hook]
             ELSE [ret |-> "crash", u |-> u1, out |-> o, hook |-> <<saw>>,
                   n |-> 0, by |-> "uuerror"]
        ELSE [ret  |-> "raise",
              u    |-> [u1 EXCEPT !.callback = NULLS],
              out  |-> o,
              hook |-> IF u1.callback # NULLS THEN <<saw>> ELSE <<>>,
              n    |-> 0,
              by   |-> "uuerror"]

\* a uuerror that runs the callback before it formats the message
uuerror_hookfirst(u, o, m) ==
    [ret  |-> "raise",
     u    |-> [u EXCEPT !.msg = m, !.callback = NULLS],
     out  |-> o,
     hook |-> IF u.callback # NULLS
              THEN <<[msg |-> u.msg, callback |-> u.callback]>>
              ELSE <<>>,
     n    |-> 0,
     by   |-> "uuerror"]

\* uuerror(...): format, run and clear the callback, longjmp
uuerror(u, o, m) == uuerror_nested(u, o, m, 0)

\* --------------------------------------------------------------- matchers
\* a character matcher whose blank rule asks for the very blank wanted
__scan_char_sameblank(wanted, u, res, o) ==
    LET lp == u.lp IN
    IF isspace(wanted) /\ CharAt(u.line, lp) = wanted
    THEN {Outcome("true", success(u, lp + 1),
                  IF res THEN [o EXCEPT !.c = wanted] ELSE o)}
    ELSE LET p == skipspace(u.line, lp) IN
         IF CharAt(u.line, p) = wanted
         THEN LET q == IF CharAt(u.line, p) # NUL THEN p + 1 ELSE p
              IN  {Outcome("true", success([u EXCEPT !.ch = wanted], q),
                           IF res THEN [o EXCEPT !.c = wanted] ELSE o)}
         ELSE {Outcome("false", _fail_1(u, p), o)}

\* a character matcher that reports a failure at the cursor, in front of the
\* blanks it skipped
__scan_char_failatcursor(wanted, u, res, o) ==
    LET lp == u.lp IN
    IF isspace(wanted) /\ isspace(CharAt(u.line, lp))
    THEN {Outcome("true", success(u, lp + 1),
                  IF res THEN [o EXCEPT !.c = wanted] ELSE o)}
    ELSE LET p == skipspace(u.line, lp) IN
         IF CharAt(u.line, p) = wanted
         THEN LET q == IF CharAt(u.line, p) # NUL THEN p + 1 ELSE p
              IN  {Outcome("true", success([u EXCEPT !.ch = wanted], q),
                           IF res THEN [o EXCEPT !.c = wanted] ELSE o)}
         ELSE {Outcome("false", _fail_1(u, lp), o)}

__scan_char(wanted, u, res, o) ==
    LET lp == u.lp IN
    IF isspace(wanted) /\ isspace(CharAt(u.line, lp))
    THEN {Outcome("true", success(u, lp + 1),
                  IF res THEN [o EXCEPT !.c = wanted] ELSE o)}
    ELSE LET p == skipspace(u.line, lp) IN
         IF CharAt(u.line, p) = wanted
         THEN LET q == IF CharAt(u.line, p) # NUL THEN p + 1 ELSE p
              IN  {Outcome("true", success([u EXCEPT !.ch = wanted], q),
                           IF res THEN [o EXCEPT !.c = wanted] ELSE o)}
         ELSE {Outcome("false", _fail_1(u, p), o)}

\* wanted[l-1] with l = 0 reads the byte in front of the literal: any byte
LastOfWanted(wanted) ==
    IF wanted # <<>> THEN {wanted[Len(wanted)]} ELSE {"a", "1", "+"}

\* a literal matcher that takes the comment "single char match" at its word:
\* lp += 1 where the code has lp += l
__scan_literal_single(wanted, u, res, o) ==
    LET lp == u.lp IN
    IF CharAt(u.line, lp) = NUL
    THEN IF wanted = <<>> THEN {Outcome("true", success(u, lp), o)}
                          ELSE {Outcome("false", _fail_1(u, lp), o)}
    ELSE LET p  == IF ~isspace(CharAt(wanted, 0)) THEN skipspace(u.line, lp)
                   ELSE lp
             l  == Len(wanted)
             u1 == [u EXCEPT !.lpstart = p]
         IN  IF strlen(u.line, p) < l
             THEN {Outcome("false", _fail_1(u1, p), o)}
             ELSE IF SubSeq(u.line, p + 1, p + l) = wanted
                  THEN {IF isalpha(w) /\ isalpha(CharAt(u.line, p + l))
                        THEN Outcome("false", _fail_1(u1, p), o)
                        ELSE IF isdigit(w) /\ isdigit(CharAt(u.line, p + l))
                        THEN Outcome("false", _fail_1(u1, p), o)
                        ELSE Outcome("true",
                                     success([u1 EXCEPT !.len = l], p + 1),
                                     IF res THEN [o EXCEPT !.p = p] ELSE o)
                        : w \in LastOfWanted(wanted)}
                  ELSE {Outcome("false", _fail_1(u1, p), o)}

\* a literal matcher that reports the match and leaves the cursor in front
\* of it
__scan_literal_peek(wanted, u, res, o) ==
    LET lp == u.lp IN
    IF CharAt(u.line, lp) = NUL
    THEN IF wanted = <<>> THEN {Outcome("true", success(u, lp), o)}
                          ELSE {Outcome("false", _fail_1(u, lp), o)}
    ELSE LET p  == IF ~isspace(CharAt(wanted, 0)) THEN skipspace(u.line, lp)
                   ELSE lp
             l  == Len(wanted)
             u1 == [u EXCEPT !.lpstart = p]
         IN  IF strlen(u.line, p) < l
             THEN {Outcome("false", _fail_1(u1, p), o)}
             ELSE IF SubSeq(u.line, p + 1, p + l) = wanted
                  THEN {IF isalpha(w) /\ isalpha(CharAt(u.line, p + l))
                        THEN Outcome("false", _fail_1(u1, p), o)
                        ELSE IF isdigit(w) /\ isdigit(CharAt(u.line, p + l))
                        THEN Outcome("false", _fail_1(u1, p), o)
                        ELSE Outcome("true",
                                     success([u1 EXCEPT !.len = l], p),
                                     IF res THEN [o EXCEPT !.p = p] ELSE o)
                        : w \in LastOfWanted(wanted)}
                  ELSE {Outcome("false", _fail_1(u1, p), o)}

\* a literal matcher without the check for a letter behind a word
__scan_literal_noalpha(wanted, u, res, o) ==
    LET lp == u.lp IN
    IF CharAt(u.line, lp) = NUL
    THEN IF wanted = <<>> THEN {Outcome("true", success(u, lp), o)}
                          ELSE {Outcome("false", _fail_1(u, lp), o)}
    ELSE LET p  == IF ~isspace(CharAt(wanted, 0)) THEN skipspace(u.line, lp)
                   ELSE lp
             l  == Len(wanted)
             u1 == [u EXCEPT !.lpstart = p]
         IN  IF strlen(u.line, p) < l
             THEN {Outcome("false", _fail_1(u1, p), o)}
             ELSE IF SubSeq(u.line, p + 1, p + l) = wanted
                  THEN {IF isdigit(w) /\ isdigit(CharAt(u.line, p + l))
                        THEN Outcome("false", _fail_1(u1, p), o)
                        ELSE Outcome("true",
                                     success([u1 EXCEPT !.len = l], p + l),
                                     IF res THEN [o EXCEPT !.p = p] ELSE o)
                        : w \in LastOfWanted(wanted)}
                  ELSE {Outcome("false", _fail_1(u1, p), o)}

\* a literal matcher without the check for a digit behind a number
__scan_literal_nodigit(wanted, u, res, o) ==
    LET lp == u.lp IN
    IF CharAt(u.line, lp) = NUL
    THEN IF wanted = <<>> THEN {Outcome("true", success(u, lp), o)}
                          ELSE {Outcome("false", _fail_1(u, lp), o)}
    ELSE LET p  == IF ~isspace(CharAt(wanted, 0)) THEN skipspace(u.line, lp)
                   ELSE lp
             l  == Len(wanted)
             u1 == [u EXCEPT !.lpstart = p]
         IN  IF strlen(u.line, p) < l
             THEN {Outcome("false", _fail_1(u1, p), o)}
             ELSE IF SubSeq(u.line, p + 1, p + l) = wanted
                  THEN {IF isalpha(w) /\ isalpha(CharAt(u.line, p + l))
                        THEN Outcome("false", _fail_1(u1, p), o)
                        ELSE Outcome("true",
                                     success([u1 EXCEPT !.len = l], p + l),
                                     IF res THEN [o EXCEPT !.p = p] ELSE o)
                        : w \in LastOfWanted(wanted)}
                  ELSE {Outcome("false", _fail_1(u1, p), o)}

__scan_literal(wanted, u, res, o) ==
    LET lp == u.lp IN
    IF CharAt(u.line, lp) = NUL
    THEN IF wanted = <<>> THEN {Outcome("true", success(u, lp), o)}
                          ELSE {Outcome("false", _fail_1(u, lp), o)}
    ELSE LET p  == IF ~isspace(CharAt(wanted, 0)) THEN skipspace(u.line, lp)
                   ELSE lp
             l  == Len(wanted)
             u1 == [u EXCEPT !.lpstart = p]
         IN  IF strlen(u.line, p) < l
             THEN {Outcome("false", _fail_1(u1, p), o)}
             ELSE IF SubSeq(u.line, p + 1, p + l) = wanted
                  THEN {IF isalpha(w) /\ isalpha(CharAt(u.line, p + l))
                        THEN Outcome("false", _fail_1(u1, p), o)
                        ELSE IF isdigit(w) /\ isdigit(CharAt(u.line, p + l))
                        THEN Outcome("false", _fail_1(u1, p), o)
                        ELSE Outcome("true",
                                     success([u1 EXCEPT !.len = l], p + l),
                                     IF res THEN [o EXCEPT !.p = p] ELSE o)
                        : w \in LastOfWanted(wanted)}
                  ELSE {Outcome("false", _fail_1(u1, p), o)}

\* ------------------------------------------------- application terminals
\* UUDEFINE(_ident_): do { ++uu.len; ++lp; } while (*lp && isalnum(*lp))
RECURSIVE IdentEnd(_, _)
IdentEnd(l, p) ==
    IF CharAt(l, p) # NUL /\ isalnum(CharAt(l, p)) THEN IdentEnd(l, p + 1)
    ELSE p

_scan__ident_(lp, u, res, o) ==
    IF isalpha(CharAt(u.line, lp))
    THEN LET q == IdentEnd(u.line, lp + 1)
         IN  {Outcome("true", success([u EXCEPT !.len = u.len + (q - lp)], q), o)}
    ELSE {Outcome("false", _fail_1(u, lp), o)}

\* the digit loop of UUDEFINE(_int_): stops at the first non-digit or at the
\* digit that would take val past INT_MAX
\* a digit loop that takes the last digit of INT_MAX for too large already
RECURSIVE IntLoop_strict(_, _, _)
IntLoop_strict(l, p, val) ==
    IF CharAt(l, p) # NUL /\ isdigit(CharAt(l, p))
    THEN LET d     == DigitVal(CharAt(l, p))
             limit == INT_MAX % 10
             max   == INT_MAX \div 10
         IN  IF val > max \/ (val = max /\ d >= limit)
             THEN [ovf |-> TRUE, val |-> val, p |-> p]
             ELSE IntLoop_strict(l, p + 1, val * 10 + d)
    ELSE [ovf |-> FALSE, val |-> val, p |-> p]

RECURSIVE IntLoop(_, _, _)
IntLoop(l, p, val) ==
    IF CharAt(l, p) # NUL /\ isdigit(CharAt(l, p))
    THEN LET d     == DigitVal(CharAt(l, p))
             limit == INT_MAX % 10
             max   == INT_MAX \div 10
         IN  IF val > max \/ (val = max /\ d > limit)
             THEN [ovf |-> TRUE, val |-> val, p |-> p]
             ELSE IntLoop(l, p + 1, val * 10 + d)
    ELSE [ovf |-> FALSE, val |-> val, p |-> p]

_scan__int_(lp, u, res, o) ==
    IF isdigit(CharAt(u.line, lp))
    THEN LET r == IntLoop(u.line, lp, 0)
         IN  IF r.ovf THEN {uuerror(u, o, "integer overflow")}
             ELSE {Outcome("true", success([u EXCEPT !.i = r.val], r.p), o)}
    ELSE {Outcome("false", _fail_1(u, lp), o)}

\* UUDEFINE(_eol_): return *lp == '\0';  neither success() nor fail()
_scan__eol_(lp, u, res, o) ==
    {Outcome(IF CharAt(u.line, lp) = NUL THEN "true" ELSE "false", u, o)}

\* a terminal of which only the contract is known: it returns success(lp)
\* past a lexeme, fail(lp) or fail(lp, msg)
DETAIL == "bad format"

_scan__app_(lp, u, res, o) ==
    {Outcome("false", _fail_1(u, lp), o),
     Outcome("false", _fail_2(u, lp, DETAIL), o)}
    \cup (IF CharAt(u.line, lp) # NUL
          THEN {Outcome("true", success(u, lp + 1), o)} ELSE {})

\* (uuterms[x].fn)(lp, res)
CallFn(fn, lp, u, res, o) ==
    CASE fn = "_ident_" -> _scan__ident_(lp, u, res, o)
      [] fn = "_int_"   -> _scan__int_(lp, u, res, o)
      [] fn = "_eol_"   -> _scan__eol_(lp, u, res, o)
      [] fn = "_app_"   -> _scan__app_(lp, u, res, o)

\* uuterms[x] is read unchecked: with x outside the table the read and the
\* call through what it yields are undefined, the process may die or the
\* call may come back with either result
\* a terminal matcher that leaves uu.failmsg as it finds it
__scan_term_keepdetail(x, u, res, o) ==
    LET lp == skipspace(u.line, u.lp)
        u1 == [u EXCEPT !.lpfail = lp, !.lpstart = lp, !.len = 0]
    IN  IF x \in DOMAIN uuterms
        THEN CallFn(uuterms[x].fn, lp, u1, res, o)
        ELSE {Outcome("crash", u1, o), Outcome("true", u1, o),
              Outcome("false", u1, o)}

__scan_term(x, u, res, o) ==
    LET lp == skipspace(u.line, u.lp)
        u1 == [u EXCEPT !.lpfail = lp, !.lpstart = lp,
                        !.failmsg = NULLS, !.len = 0]
    IN  IF x \in DOMAIN uuterms
        THEN CallFn(uuterms[x].fn, lp, u1, res, o)
        ELSE {Outcome("crash", u1, o), Outcome("true", u1, o),
              Outcome("false", u1, o)}

\* ------------------------------------------------- accept, acceptall, expect
__accept(x, u, res, o) ==
    CASE x.k = "str"  -> __scan_literal(x.s, u, res, o)
      [] x.k = "char" -> __scan_char(x.s[1], u, res, o)
      [] x.k = "term" -> __scan_term(x.t, u, res, o)

\* a chain written with & for &&: every target is scanned, failed or not
RECURSIVE _ACCEPTALL_eager(_, _, _)
_ACCEPTALL_eager(ts, u, o) ==
    UNION {IF Len(ts) > 1
           THEN {IF r.ret = "true" THEN [q EXCEPT !.n = q.n + 1]
                 ELSE [q EXCEPT !.ret = IF q.ret = "raise" THEN "raise" ELSE r.ret,
                                !.n = 0]
                 : q \in _ACCEPTALL_eager(Tail(ts), r.u, r.out)}
           ELSE {r} : r \in __accept(Head(ts), u, FALSE, o)}

\* _ACCEPT4 .. _ACCEPT0: __accept(t,NULL) && ...
RECURSIVE _ACCEPTALL(_, _, _)
_ACCEPTALL(ts, u, o) ==
    UNION {IF r.ret = "true" /\ Len(ts) > 1
           THEN {[q EXCEPT !.n = q.n + 1] : q \in _ACCEPTALL(Tail(ts), r.u, r.out)}
           ELSE {r} : r \in __accept(Head(ts), u, FALSE, o)}

MaxAcceptAll == 5

\* an acceptall that forgets to put savelp back
acceptall_norestore(ts, u, o) == _ACCEPTALL(ts, u, o)

acceptall(ts, u, o) ==
    LET savelp == u.lp
    IN  {IF r.ret = "false" THEN [r EXCEPT !.u.lp = savelp] ELSE r
         : r \in _ACCEPTALL(ts, u, o)}

\* a message that keeps "expected " in front of the override text
_msg_str_prefixed(s, msg, u) ==
    IF msg = NULLS
    THEN "expected \"" \o Text(s) \o "\" at pos " \o ToString(uuerrorpos(u))
    ELSE "expected " \o msg \o " at pos " \o ToString(uuerrorpos(u))

_msg_str(s, msg, u) ==
    IF msg = NULLS
    THEN "expected \"" \o Text(s) \o "\" at pos " \o ToString(uuerrorpos(u))
    ELSE msg \o " at pos " \o ToString(uuerrorpos(u))

\* a message for a character that leaves the position out
_msg_char_nopos(c, msg, u) ==
    IF msg # NULLS
    THEN msg
    ELSE IF isprint(c)
         THEN "expected '" \o c \o "'"
         ELSE "expected '\\000'"

_msg_char(c, msg, u) ==
    IF msg # NULLS
    THEN msg \o " at pos " \o ToString(uuerrorpos(u))
    ELSE IF isprint(c)
         THEN "expected '" \o c \o "' at pos " \o ToString(uuerrorpos(u))
         ELSE "expected '\\000' at pos " \o ToString(uuerrorpos(u))

\* a message that reports the cursor where the code reports uu.lpfail
_msg_term_cursor(t, msg, u) ==
    LET m == (IF msg = NULLS THEN "expected " ELSE "")
             \o (IF msg = NULLS THEN uuterms[t].name ELSE msg)
             \o " at pos " \o ToString((u.lp - 0) + 1)
    IN  IF u.failmsg # NULLS THEN m \o " (" \o u.failmsg \o ")" ELSE m

_msg_term(t, msg, u) ==
    LET m == (IF msg = NULLS THEN "expected " ELSE "")
             \o (IF msg = NULLS THEN uuterms[t].name ELSE msg)
             \o " at pos " \o ToString(uuerrorpos(u))
    IN  IF u.failmsg # NULLS THEN m \o " (" \o u.failmsg \o ")" ELSE m

_expect_msg(x, msg, u) ==
    CASE x.k = "str"  -> _msg_str(x.s, msg, u)
      [] x.k = "char" -> _msg_char(x.s[1], msg, u)
      [] x.k = "term" -> _msg_term(x.t, msg, u)

\* an expect that stores the message and returns instead of jumping
__expect_returning(x, u, res, msg, o) ==
    {IF r.ret = "false"
     THEN [r EXCEPT !.u.msg = _expect_msg(x, msg, r.u)]
     ELSE r
     : r \in __accept(x, u, res, o)}

\* if (accept(x,res)==false) { _expect_msg(x,msg); longjmp(uu.errjmp,1); }
\* _expect_msg writes with sprintf and strcat into _uumsgbuf, whatever the
\* length of the text: a text that does not fit is written beyond the buffer,
\* after which the jump is made or the process is dead
__expect(x, u, res, msg, o) ==
    UNION {IF r.ret = "false"
           THEN LET m == _expect_msg(x, msg, r.u)
                    j == [ret |-> "raise", u |-> [r.u EXCEPT !.msg = m],
                          out |-> r.out, hook |-> <<>>, n |-> 0, by |-> "expect"]
                IN  IF Len(m) + 1 > sizeof_uumsgbuf
                    THEN {j, [j EXCEPT !.ret = "crash"]}
                    ELSE {j}
           ELSE {r}
           : r \in __accept(x, u, res, o)}

\* ----------------------------------------------------------------- inputs
Literals  == {<<>>, <<"a">>, <<"1">>, <<"+">>, <<" ", "a">>, <<"a", "1">>,
              <<"i", "f">>, <<"1", "2">>}
Chars     == {"a", "+", " ", "\t", NUL}
Targets   == {Str(s) : s \in Literals} \cup {Chr(c) : c \in Chars}
             \cup {Term(t) : t \in 0..(UUTERMCOUNT - 1)}
Overrides == {NULLS, "address or unit number"}

\* acceptall(t1, ..., tn), 1 <= n <= MaxAcceptAll: every pair of five targets
\* of the three kinds, and every longer sequence of two of them
PairTargets == {Str(<<"a">>), Chr("+"), Chr(NUL),
                Term(TermId("_int_")), Term(TermId("_app_"))}
LongTargets == {Str(<<"a">>), Chr(NUL)}
AllSeqs     == (SeqsUpTo(PairTargets, 2) \cup SeqsUpTo(LongTargets, MaxAcceptAll))
               \ {<<>>}

\* the lines and targets of the runs of the whole program
ProgLines   == {<<>>, <<"1", "+">>, <<" ", "a">>}
ProgTargets == {Str(<<"+">>), Chr("a"), Chr(NUL),
                Term(TermId("_int_")), Term(TermId("_app_"))}
ProgSeqs    == {<<Term(TermId("_int_")), Chr("+")>>,
                <<Term(TermId("_int_")), Chr("+"), Term(TermId("_int_"))>>}

\* messages the application raises itself
AppErrors(u) == {"syntax error at pos " \o ToString(uuerrorpos(u)),
                 "unknown function a"}

\* no call recorded
NoArg == [ts |-> <<>>, res |-> FALSE, msg |-> NULLS, u |-> uu0, o |-> out0]

\* ------------------------------------------------------------ the program
Init ==
    /\ uu = uu0
    /\ uuterms = uuterms0
    /\ pc = "main"
    /\ depth = 0
    /\ out = out0
    /\ op = "none"
    /\ ret = "none"
    /\ lp0 = NULLP
    /\ nargs = 0
    /\ matched = 0
    /\ arg = NoArg
    /\ calls = 0
    /\ raised = 0
    /\ raisedBy = "none"
    /\ rdepth = 0
    /\ handled = 0
    /\ hookRegs = 0
    /\ hookRuns = 0
    /\ hookSaw = [msg |-> "", callback |-> NULLS]
    /\ printed = <<>>

\* a jump that lands in the caller of the raising function
longjmp_caller(d) == d - 1

\* frames left below main once longjmp(uu.errjmp, 1) has landed
longjmp(d) == 0

\* main up to the read loop: the name of _eol_, then
\* on_uuerror: uu.msg = _uumsgbuf; if (setjmp(uu.errjmp))
on_uuerror ==
    /\ pc = "main"
    /\ uuterms' = [uuterms EXCEPT ![TermId("_eol_")].name = "end of line"]
    /\ uu' = [uu EXCEPT !.msg = "", !.errjmp = TRUE]
    /\ pc' = "getline"
    /\ UNCHANGED <<depth, out, call, errs, hook, printed>>

\* getline() > 0: the line is terminated, uu.lp = uu.line, expr() is entered
getline(l) ==
    /\ pc = "getline"
    /\ calls < MaxCalls
    /\ uu' = [uu EXCEPT !.line = l, !.lp = 0]
    /\ pc' = "parse"
    /\ depth' = 1
    /\ op' = "none"
    /\ ret' = "none"
    /\ lp0' = NULLP
    /\ nargs' = 0
    /\ matched' = 0
    /\ printed' = <<>>
    /\ UNCHANGED <<uuterms, out, calls, arg, errs, hook>>

\* getline() <= 0: main returns
eof ==
    /\ pc = "getline"
    /\ pc' = "exit"
    /\ UNCHANGED <<uu, uuterms, depth, out, call, errs, hook, printed>>

\* a grammar function calls another one
Call ==
    /\ pc = "parse"
    /\ depth < MaxDepth
    /\ depth' = depth + 1
    /\ UNCHANGED <<uu, uuterms, pc, out, call, errs, hook, printed>>

\* a grammar function returns; expr() returns to main, which prints the value
\* with printf(" = %d\n", ...)
Return ==
    /\ pc = "parse"
    /\ depth' = depth - 1
    /\ pc' = IF depth = 1 THEN "getline" ELSE "parse"
    /\ printed' = IF depth = 1 THEN Append(printed, " = %d") ELSE printed
    /\ UNCHANGED <<uu, uuterms, out, call, errs, hook>>

\* the application registers the cleanup hook h: uu.callback = h
SetCallbackTo(h) ==
    /\ pc = "parse"
    /\ uu.callback = NULLS
    /\ uu' = [uu EXCEPT !.callback = h]
    /\ hookRegs' = hookRegs + 1
    /\ UNCHANGED <<uuterms, pc, depth, out, call, errs, hookRuns, hookSaw,
                   printed>>

\* the application registers a cleanup hook that returns
SetCallback == SetCallbackTo("hook")

\* the effect of one library call with outcome r
Do(name, n, r) ==
    /\ uu' = r.u
    /\ out' = r.out
    /\ op' = name
    /\ ret' = r.ret
    /\ lp0' = uu.lp
    /\ nargs' = n
    /\ matched' = r.n
    /\ calls' = calls + 1
    /\ hookRuns' = hookRuns + Len(r.hook)
    /\ hookSaw' = IF r.hook # <<>> THEN r.hook[Len(r.hook)] ELSE hookSaw
    /\ pc' = IF r.ret = "raise" THEN "handler"
             ELSE IF r.ret = "crash" THEN "crash" ELSE pc
    /\ depth' = IF r.ret = "raise" THEN longjmp(depth) ELSE depth
    /\ raised' = IF r.ret = "raise" THEN raised + 1 ELSE raised
    /\ raisedBy' = IF r.ret = "raise" THEN r.by ELSE raisedBy
    /\ rdepth' = IF r.ret = "raise" THEN depth ELSE rdepth
    /\ UNCHANGED <<uuterms, handled, hookRegs, printed>>

AcceptStep(x, res) ==
    /\ pc = "parse"
    /\ \E r \in __accept(x, uu, res, out) : Do("accept", 1, r)

AcceptAllStep(ts) ==
    /\ pc = "parse"
    /\ \E r \in acceptall(ts, uu, out) : Do("acceptall", Len(ts), r)

ExpectStep(x, res, msg) ==
    /\ pc = "parse"
    /\ \E r \in __expect(x, uu, res, msg, out) : Do("expect", 1, r)

\* the calls of a run of the program, MaxCalls of them at most
Accept(x, res) ==
    calls < MaxCalls /\ AcceptStep(x, res) /\ UNCHANGED arg

AcceptAll(ts) ==
    calls < MaxCalls /\ AcceptAllStep(ts) /\ UNCHANGED arg

Expect(x, res, msg) ==
    calls < MaxCalls /\ ExpectStep(x, res, msg) /\ UNCHANGED arg

UUError ==
    /\ pc = "parse"
    /\ calls < MaxCalls
    /\ \E m \in AppErrors(uu) : Do("uuerror", 0, uuerror(uu, out, m))
    /\ UNCHANGED arg

\* the on_uuerror block: puts(uu.msg), then on to the read loop
Handler ==
    /\ pc = "handler"
    /\ pc' = "getline"
    /\ handled' = handled + 1
    /\ printed' = Append(printed, uu.msg)
    /\ UNCHANGED <<uu, uuterms, depth, out, call, raised, raisedBy, rdepth, hook>>

Next ==
    \/ on_uuerror
    \/ \E l \in ProgLines : getline(l)
    \/ eof
    \/ Call
    \/ Return
    \/ SetCallback
    \/ \E x \in ProgTargets, res \in BOOLEAN : Accept(x, res)
    \/ \E ts \in ProgSeqs : AcceptAll(ts)
    \/ \E x \in ProgTargets, res \in BOOLEAN, msg \in Overrides : Expect(x, res, msg)
    \/ UUError
    \/ Handler

Spec == Init /\ [][Next]_vars

\* ------------------------------------------------------- cleanup hooks
\* The program with either kind of cleanup hook registered.
NextHook ==
    \/ on_uuerror
    \/ \E l \in ProgLines : getline(l)
    \/ eof
    \/ Call
    \/ Return
    \/ \E h \in Hooks : SetCallbackTo(h)
    \/ \E x \in ProgTargets : Accept(x, FALSE)
    \/ UUError
    \/ Handler

SpecHook == Init /\ [][NextHook]_vars

\* ------------------------------------------------------------ single calls
\* One scanning call, with its arguments and the state it starts from kept
\* in arg.  The call starts where a parse can be: after accept(CHAR(c)) has
\* consumed the first k characters of the line one by one, and possibly
\* after an accept(_app_) that failed with fail(lp, DETAIL).
Start(l) ==
    [u |-> [uu0 EXCEPT !.line = l, !.lp = 0, !.errjmp = TRUE],
     op |-> "none", ret |-> "none", lp0 |-> NULLP, n |-> 0, calls |-> 0]

After(st, x) ==
    {[u |-> r.u, op |-> "accept", ret |-> r.ret, lp0 |-> st.u.lp, n |-> r.n,
      calls |-> st.calls + 1] : r \in __accept(x, st.u, FALSE, out0)}

RECURSIVE Consumed(_, _)
Consumed(l, k) ==
    IF k = 0 THEN Start(l)
    ELSE CHOOSE s \in UNION {After(st, Chr(CharAt(l, k - 1))) :
                                 st \in {Consumed(l, k - 1)}} : s.ret = "true"

Entries(l) ==
    LET C == {Consumed(l, k) : k \in 0..Len(l)}
    IN  C \cup {s \in UNION {After(st, Term(TermId("_app_"))) : st \in C} :
                   s.ret = "false" /\ s.u.failmsg = DETAIL}

InitCall ==
    /\ uuterms = [uuterms0 EXCEPT ![TermId("_eol_")].name = "end of line"]
    /\ \E l \in Lines : \E st \in Entries(l) :
          /\ uu = st.u
          /\ op = st.op
          /\ ret = st.ret
          /\ lp0 = st.lp0
          /\ nargs = IF st.calls = 0 THEN 0 ELSE 1
          /\ matched = st.n
          /\ calls = st.calls
    /\ pc = "parse"
    /\ depth \in 1..MaxDepth
    /\ out = out0
    /\ arg = NoArg
    /\ raised = 0
    /\ raisedBy = "none"
    /\ rdepth = 0
    /\ handled = 0
    /\ hookRegs = 0
    /\ hookRuns = 0
    /\ hookSaw = [msg |-> "", callback |-> NULLS]
    /\ printed = <<>>

Recorded(ts, res, msg) ==
    [ts |-> ts, res |-> res, msg |-> msg, u |-> uu, o |-> out]

CallAccept(x, res) ==
    arg = NoArg /\ AcceptStep(x, res) /\ arg' = Recorded(<<x>>, res, NULLS)

CallAcceptAll(ts) ==
    arg = NoArg /\ AcceptAllStep(ts) /\ arg' = Recorded(ts, FALSE, NULLS)

CallExpect(x, res, msg) ==
    arg = NoArg /\ ExpectStep(x, res, msg) /\ arg' = Recorded(<<x>>, res, msg)

NextCall ==
    \/ \E x \in Targets, res \in BOOLEAN : CallAccept(x, res)
    \/ \E ts \in AllSeqs : CallAcceptAll(ts)
    \/ \E x \in Targets, res \in BOOLEAN, msg \in Overrides :
          CallExpect(x, res, msg)

SpecCall == InitCall /\ [][NextCall]_vars

\* ------------------------------------------------------- terminal lookups
\* One accept of an int: the id of a declared terminal, or a character
\* constant written without CHAR(), which has type int and selects
\* __scan_term in _Generic.
PlusCode == 43      \* '+'
TermArgs == 0..(UUTERMCOUNT - 1) \cup {PlusCode}

NextTerm == \E x \in TermArgs, res \in BOOLEAN : CallAccept(Term(x), res)

SpecTerm == InitCall /\ [][NextTerm]_vars

\* --------------------------------------------------- long override texts
\* One expect with an override message of 58 or of 75 characters.
LongOverrides ==
    {"expected the number of a house, of a unit or of a post box",
     "expected the number of a house, of a unit or of a post office box, or a ..."}
LongExpectTargets == {Str(<<"a">>), Chr("+"), Term(TermId("_int_")),
                 Term(TermId("_app_"))}

NextLong ==
    \E x \in LongExpectTargets, res \in BOOLEAN, msg \in LongOverrides :
        CallExpect(x, res, msg)

SpecLong == InitCall /\ [][NextLong]_vars

\* ---------------------------------------------------------- the calculator
\* The grammar functions of the example, each as the set of ways its call can
\* end: with a value, in a longjmp to on_uuerror, or with the process dead.
\* pr is what the call has written to stdout.
EOL    == Chr(NUL)
LPAREN == Chr("(")
RPAREN == Chr(")")
MINUS  == Chr("-")
PLUS   == Chr("+")
COMMA  == Chr(",")
MUL    == Chr("*")
DIV1   == Chr("/")
DIV2   == Str(<<"\\303", "\\267">>)

MAXARGS     == 10
MAXIDENTLEN == 20

\* values an int of unknown content is given in the model: what rand(),
\* atoi(getenv()) or an undefined operation may yield
AnyInt == {0, 7}

Val(v, u, pr)        == [k |-> "val", v |-> v, u |-> u, pr |-> pr, by |-> "none"]
Raised(u, m, pr)     == [k |-> "raise", v |-> 0, u |-> uuerror(u, out0, m).u,
                         pr |-> pr, by |-> "uuerror"]
Jumped(u, by, pr)    == [k |-> "raise", v |-> 0, u |-> u, pr |-> pr, by |-> by]
Crash(u, pr)         == [k |-> "crash", v |-> 0, u |-> u, pr |-> pr, by |-> "none"]

\* the outcome of accept(x) where the matcher has one
One(S) == CHOOSE r \in S : TRUE
Acc(x, u) == One(__accept(x, u, FALSE, out0))

\* int arithmetic: the results of n op m; an overflow and a division by zero
\* are undefined
Abs(n) == IF n < 0 THEN -n ELSE n
AddFits(n, m) == IF m >= 0 THEN n <= INT_MAX - m ELSE n >= (-INT_MAX - 1) - m
MulFits(n, m) == n = 0 \/ m = 0 \/ Abs(n) <= INT_MAX \div Abs(m)
CDiv(n, m) ==
    IF (n < 0) = (m < 0) THEN Abs(n) \div Abs(m) ELSE -(Abs(n) \div Abs(m))

Arith(o, n, m) ==
    CASE o = "+" -> IF AddFits(n, m) THEN [ub |-> FALSE, v |-> n + m]
                    ELSE [ub |-> TRUE, v |-> 0]
      [] o = "-" -> IF AddFits(n, -m) THEN [ub |-> FALSE, v |-> n - m]
                    ELSE [ub |-> TRUE, v |-> 0]
      [] o = "*" -> IF MulFits(n, m) THEN [ub |-> FALSE, v |-> n * m]
                    ELSE [ub |-> TRUE, v |-> 0]
      [] o = "/" -> IF m # 0 THEN [ub |-> FALSE, v |-> CDiv(n, m)]
                    ELSE [ub |-> TRUE, v |-> 0]

RECURSIVE MinOf(_), MaxOf(_)
MinOf(av) == IF Len(av) = 1 THEN av[1]
             ELSE LET r == MinOf(Tail(av)) IN IF av[1] < r THEN av[1] ELSE r
MaxOf(av) == IF Len(av) = 1 THEN av[1]
             ELSE LET r == MaxOf(Tail(av)) IN IF av[1] > r THEN av[1] ELSE r

\* fn_min and fn_max read av[0], which nothing has written when ac is 0
fn_min(av, u, pr) ==
    IF av = <<>> THEN {Val(v, u, pr) : v \in AnyInt} ELSE {Val(MinOf(av), u, pr)}

fn_max(av, u, pr) ==
    IF av = <<>> THEN {Val(v, u, pr) : v \in AnyInt} ELSE {Val(MaxOf(av), u, pr)}

fn_rand(av, u, pr) ==
    {Val(v, u, IF av # <<>> THEN Append(pr, "arguments in rand() ignored")
               ELSE pr) : v \in AnyInt}

builtin == <<"min", "max", "rand">>

lookup_fn(name) ==
    CASE name = <<"m", "i", "n">>      -> 0
      [] name = <<"m", "a", "x">>      -> 1
      [] name = <<"r", "a", "n", "d">> -> 2
      [] OTHER                         -> -1

exec(fn, av, u, pr) ==
    CASE builtin[fn + 1] = "min"  -> fn_min(av, u, pr)
      [] builtin[fn + 1] = "max"  -> fn_max(av, u, pr)
      [] builtin[fn + 1] = "rand" -> fn_rand(av, u, pr)

\* expect(x) made when the call r has ended with a value
Expecting(x, r) ==
    LET e == One(__expect(x, r.u, FALSE, NULLS, out0))
    IN  IF e.ret = "true" THEN {[r EXCEPT !.u = e.u]}
        ELSE {Jumped(e.u, e.by, r.pr)}

\* a call of one of the parsing functions, by its name
RECURSIVE Run(_, _)

RECURSIVE ArgLoop(_, _, _, _, _), AfterArg(_, _, _, _, _),
          FactorLoop(_, _, _), FactorStep(_, _, _),
          TermLoop(_, _, _), TermStep(_, _, _)

primary(u, pr) ==
    LET a1 == Acc(Term(TermId("_ident_")), u) IN
    IF a1.ret = "true"
    THEN LET i  == IF a1.u.len > MAXIDENTLEN THEN MAXIDENTLEN ELSE a1.u.len
             id == SubSeq(a1.u.line, a1.u.lpstart + 1, a1.u.lpstart + i)
             a2 == Acc(LPAREN, a1.u)
         IN  IF a2.ret = "true"
             THEN IF lookup_fn(id) = -1
                  THEN {Raised(a2.u, "unknown function " \o Text(id), pr)}
                  ELSE ArgLoop(a2.u, id, lookup_fn(id), <<>>, pr)
             ELSE {Val(v, a2.u, pr) : v \in AnyInt}
                  \cup {Raised(a2.u, Text(id) \o " not found in environment", pr)}
    ELSE LET a3 == Acc(LPAREN, a1.u) IN
         IF a3.ret = "true"
         THEN UNION {IF r.k = "val" THEN Expecting(RPAREN, r) ELSE {r}
                     : r \in Run("term", [u |-> a3.u, pr |-> pr])}
         ELSE LET a4 == Acc(MINUS, a3.u) IN
         IF a4.ret = "true"
         THEN {IF r.k = "val" THEN [r EXCEPT !.v = -r.v] ELSE r
               : r \in Run("term", [u |-> a4.u, pr |-> pr])}
         ELSE LET a5 == Acc(PLUS, a4.u) IN
         IF a5.ret = "true"
         THEN Run("term", [u |-> a5.u, pr |-> pr])
         ELSE LET a6 == Acc(Term(TermId("_int_")), a5.u) IN
         IF a6.ret = "true" THEN {Val(a6.u.i, a6.u, pr)}
         ELSE IF a6.ret = "raise" THEN {Jumped(a6.u, a6.by, pr)}
         ELSE {Raised(a6.u, "syntax error at pos " \o ToString(uuerrorpos(a6.u)),
                      pr)}

\* the argument loop of a call of a built-in function
ArgLoop(u, id, fn, av, pr) ==
    LET a1 == Acc(RPAREN, u) IN
    IF a1.ret = "true" THEN exec(fn, av, a1.u, pr)
    ELSE IF Len(av) < MAXARGS
         THEN UNION {IF r.k = "val"
                     THEN AfterArg(r.u, id, fn, Append(av, r.v), r.pr)
                     ELSE {r} : r \in Run("term", [u |-> a1.u, pr |-> pr])}
         ELSE {Raised(a1.u, "function " \o Text(id) \o ": too many args", pr)}

AfterArg(u, id, fn, av, pr) ==
    LET a2 == Acc(COMMA, u) IN
    IF a2.ret = "true" THEN ArgLoop(a2.u, id, fn, av, pr)
    ELSE LET a3 == Acc(EOL, a2.u) IN
         IF a3.ret = "true"
         THEN {Raised(a3.u, "unclosed paren on function call " \o Text(id), pr)}
         ELSE ArgLoop(a3.u, id, fn, av, pr)

factor(u, pr) ==
    UNION {IF r.k = "val" THEN FactorLoop(r.v, r.u, r.pr) ELSE {r}
           : r \in Run("primary", [u |-> u, pr |-> pr])}

\* n op= m: the contents n may have afterwards, and whether the process may
\* be dead; an undefined operation leaves it dead or n with any content
Apply(o, n, m) ==
    LET x == Arith(o, n, m)
    IN  IF x.ub THEN [dead |-> TRUE, vals |-> AnyInt]
        ELSE [dead |-> FALSE, vals |-> {x.v}]

\* n *= primary() or n /= primary(), primary() having ended as r, and on
\* with the loop
FactorStep(o, n, r) ==
    (IF Apply(o, n, r.v).dead THEN {Crash(r.u, r.pr)} ELSE {})
    \cup UNION {FactorLoop(v, r.u, r.pr) : v \in Apply(o, n, r.v).vals}

FactorLoop(n, u, pr) ==
    LET a1 == Acc(MUL, u) IN
    IF a1.ret = "true"
    THEN UNION {IF r.k = "val" THEN FactorStep("*", n, r) ELSE {r}
                : r \in Run("primary", [u |-> a1.u, pr |-> pr])}
    ELSE LET a2 == Acc(DIV1, a1.u)
             a3 == Acc(DIV2, a2.u)
         IN  IF a2.ret = "true"
             THEN UNION {IF r.k = "val" THEN FactorStep("/", n, r) ELSE {r}
                         : r \in Run("primary", [u |-> a2.u, pr |-> pr])}
             ELSE IF a3.ret = "true"
             THEN UNION {IF r.k = "val" THEN FactorStep("/", n, r) ELSE {r}
                         : r \in Run("primary", [u |-> a3.u, pr |-> pr])}
             ELSE {Val(n, a3.u, pr)}

term(u, pr) ==
    UNION {IF r.k = "val" THEN TermLoop(r.v, r.u, r.pr) ELSE {r}
           : r \in Run("factor", [u |-> u, pr |-> pr])}

\* n += factor() or n -= factor(), factor() having ended as r, and on with
\* the loop
TermStep(o, n, r) ==
    (IF Apply(o, n, r.v).dead THEN {Crash(r.u, r.pr)} ELSE {})
    \cup UNION {TermLoop(v, r.u, r.pr) : v \in Apply(o, n, r.v).vals}

TermLoop(n, u, pr) ==
    LET a1 == Acc(PLUS, u) IN
    IF a1.ret = "true"
    THEN UNION {IF r.k = "val" THEN TermStep("+", n, r) ELSE {r}
                : r \in Run("factor", [u |-> a1.u, pr |-> pr])}
    ELSE LET a2 == Acc(MINUS, a1.u) IN
         IF a2.ret = "true"
         THEN UNION {IF r.k = "val" THEN TermStep("-", n, r) ELSE {r}
                     : r \in Run("factor", [u |-> a2.u, pr |-> pr])}
         ELSE {Val(n, a2.u, pr)}

Run(f, a) ==
    CASE f = "primary" -> primary(a.u, a.pr)
      [] f = "factor"  -> factor(a.u, a.pr)
      [] f = "term"    -> term(a.u, a.pr)

expr(u, pr) ==
    UNION {IF r.k = "val" THEN Expecting(Term(TermId("_eol_")), r) ELSE {r}
           : r \in term(u, pr)}

\* the lines the calculator is run on
MainLines ==
    {<<>>, <<"1">>, <<" ", "1", "0", " ">>, <<"1", "+">>, <<"1", "+", "1">>,
     <<"1", "0", "/", "1">>, <<"1", "/", "0">>, <<"(", "1", ")">>, <<"(", "1">>,
     <<"-", "1", "*", "1", "0">>, <<"1", " ", "1">>,
     <<"a">>, <<"a", "(", ")">>, <<"m", "a", "x", "(", "1", ",", "0", ")">>,
     <<"m", "i", "n", "(", ")">>, <<"m", "i", "n", "(", "1">>,
     <<"r", "a", "n", "d", "(", ")">>, <<"r", "a", "n", "d", "(", "1", ")">>}

\* printf(" = %d\n", expr()) in the read loop: expr() returns and its value is
\* printed, or it ends in the on_uuerror block, or the process is dead.  One
\* run of expr() counts as one call.
PrintExpr ==
    /\ pc = "parse"
    /\ \E r \in expr(uu, printed) :
          /\ uu' = r.u
          /\ pc' = CASE r.k = "val"   -> "getline"
                     [] r.k = "raise" -> "handler"
                     [] r.k = "crash" -> "crash"
          /\ printed' = IF r.k = "val"
                        THEN Append(r.pr, " = " \o ToString(r.v)) ELSE r.pr
          /\ depth' = CASE r.k = "val"   -> depth - 1
                        [] r.k = "raise" -> longjmp(depth)
                        [] r.k = "crash" -> depth
          /\ raised' = IF r.k = "raise" THEN raised + 1 ELSE raised
          /\ raisedBy' = IF r.k = "raise" THEN r.by ELSE raisedBy
          /\ rdepth' = IF r.k = "raise" THEN depth ELSE rdepth
    /\ calls' = calls + 1
    /\ UNCHANGED <<uuterms, out, op, ret, lp0, nargs, matched, arg, handled, hook>>

NextMain ==
    \/ on_uuerror
    \/ \E l \in MainLines : getline(l)
    \/ eof
    \/ PrintExpr
    \/ Handler

SpecMain == Init /\ [][NextMain]_vars


\* ------------------------------------------------------------------ reads
\* The offsets the built-in matchers read, in the line and in wanted (for a
\* literal: offset Len(wanted) is its terminator).  skipspace reads every
\* character from cp up to the first that is no whitespace.
SkipReads(l, lp) == lp..skipspace(l, lp)

__scan_char_reads(wanted, u) ==
    [line   |-> {u.lp} \cup
                (IF isspace(wanted) /\ isspace(CharAt(u.line, u.lp)) THEN {}
                 ELSE SkipReads(u.line, u.lp)),
     wanted |-> {}]

\* *lp, *wanted, skipspace(lp), strlen(wanted), strlen(lp), strncmp, then
\* wanted[l-1] and, behind a letter or a digit, lp[l]
__scan_literal_reads(wanted, u) ==
    LET lp == u.lp IN
    IF CharAt(u.line, lp) = NUL THEN [line |-> {lp}, wanted |-> {0}]
    ELSE LET p == IF ~isspace(CharAt(wanted, 0)) THEN skipspace(u.line, lp)
                  ELSE lp
             l == Len(wanted)
             upto == [line   |-> {lp} \cup lp..p \cup p..Len(u.line),
                      wanted |-> 0..l]
         IN  IF strlen(u.line, p) >= l /\ SubSeq(u.line, p + 1, p + l) = wanted
             THEN [line   |-> upto.line \cup
                              (IF \E w \in LastOfWanted(wanted) :
                                     isalpha(w) \/ isdigit(w)
                               THEN {p + l} ELSE {}),
                   wanted |-> upto.wanted \cup {l - 1}]
             ELSE upto

Reads(x, u) ==
    CASE x.k = "str"  -> __scan_literal_reads(x.s, u)
      [] x.k = "char" -> __scan_char_reads(x.s[1], u)

\* ================================================================= claims

\* the recorded call and its one target
Recd(o) == op = o /\ arg # NoArg
X       == arg.ts[1]


\* C1  No-advance-on-failure: when accept(target) returns false, whatever the
\* line, the cursor and the kind of target, uu.lp is what it was before the
\* call.
C1_NoAdvanceOnFailure ==
    (op = "accept" /\ ret = "false") => uu.lp = lp0

\* a second accept fails past skipped blanks, the cursor already advanced
C1_Witness ==
    /\ Recd("accept") /\ ret = "false"
    /\ lp0 > 0 /\ uu.lpfail > lp0 /\ uu.lp = lp0

\* C2  Transactional acceptall: when one of the 1..5 targets fails, however
\* many leading targets matched, acceptall returns false and uu.lp is what it
\* was before the call.
C2_TransactionalAcceptAll ==
    (op = "acceptall" /\ ret # "raise" /\ matched < nargs)
        => (ret = "false" /\ uu.lp = lp0)

\* five targets, the first four matched and consumed text, the fifth failed
C2_Witness ==
    /\ op = "acceptall" /\ ret = "false"
    /\ nargs = MaxAcceptAll /\ matched = MaxAcceptAll - 1
    /\ uu.lpfail > lp0 /\ uu.lp = lp0

\* C3  expect(target) has two outcomes.  When the accept inside it matches,
\* expect falls through having done exactly what accept does (scan state and
\* res destination); when it does not match, control is in the on_uuerror
\* block with every grammar frame gone.  No expect yields false.
C3_ExpectOutcomes ==
    (op = "expect" /\ arg # NoArg) =>
        LET x == arg.ts[1] IN
        \/ /\ ret = "true"
           /\ pc = "parse"
           /\ \E r \in __accept(x, arg.u, arg.res, arg.o) :
                 r.ret = "true" /\ uu = r.u /\ out = r.out
        \/ /\ ret = "raise"
           /\ pc = "handler" /\ depth = 0
           /\ \E r \in __accept(x, arg.u, arg.res, arg.o) : r.ret # "true"

\* an expect failed with the cursor already advanced: the handler has control
C3_Witness ==
    /\ op = "expect" /\ arg # NoArg /\ arg.res
    /\ ret = "raise" /\ raisedBy = "expect"
    /\ pc = "handler" /\ lp0 > 0 /\ uu.lp = lp0

\* C4  Single-handler unwind: an error raised by uuerror or a failed expect
\* at any depth of grammar calls reaches the one on_uuerror block, which runs
\* once for it; no grammar frame survives the raise.
C4_SingleHandlerUnwind ==
    /\ handled <= raised /\ raised <= handled + 1
    /\ (pc = "handler") <=> (raised = handled + 1)
    /\ pc = "handler" => (depth = 0 /\ ret = "raise")

\* the handler has run for an error raised at the deepest nesting
C4_Witness ==
    /\ pc = "getline" /\ raised = 1 /\ handled = 1
    /\ rdepth = MaxDepth /\ depth = 0

\* C5  (as claimed) a failed expect with a cleanup hook registered runs the
\* hook once before the handler and leaves uu.callback NULL.
C5_ExpectRunsHook ==
    [][(raised' = raised + 1 /\ raisedBy' = "expect" /\ uu.callback # NULLS)
          => (hookRuns' = hookRuns + 1 /\ uu'.callback = NULLS)]_vars

\* C6  uuerror with a cleanup hook registered: the message is stored, then
\* the hook runs once, then uu.callback is cleared, then the handler has
\* control; the hook and the handler both see the stored message.
C6_UUErrorOrder ==
    [][(raised' = raised + 1 /\ raisedBy' = "uuerror" /\ uu.callback # NULLS)
          => /\ hookRuns' = hookRuns + 1
             /\ hookSaw'.msg = uu'.msg
             /\ hookSaw'.callback = uu.callback
             /\ uu'.callback = NULLS
             /\ pc' = "handler"
             /\ (op' = "uuerror" => uu'.msg \in AppErrors(uu))]_vars

\* the handler holds the message of a uuerror whose hook has run
C6_Witness ==
    /\ pc = "handler" /\ op = "uuerror" /\ raisedBy = "uuerror"
    /\ hookRegs = 1 /\ hookRuns = 1
    /\ hookSaw.msg = uu.msg /\ uu.msg # ""
    /\ uu.callback = NULLS

\* where the built-in matcher for x starts to compare, and how many bytes a
\* match of x is long
MatchStart(x, u) ==
    IF x.k = "char"
    THEN IF isspace(x.s[1]) /\ isspace(CharAt(u.line, u.lp)) THEN u.lp
         ELSE skipspace(u.line, u.lp)
    ELSE IF x.s # <<>> /\ isspace(x.s[1]) THEN u.lp
         ELSE skipspace(u.line, u.lp)

MatchLen(x) ==
    IF x.k = "char" THEN (IF x.s[1] = NUL THEN 0 ELSE 1) ELSE Len(x.s)

\* C7  Advance-equals-consumed: after a successful accept of a string literal
\* or a character, uu.lp = p + n, p the position the matcher compares at
\* (past the blanks it skips) and n the bytes matched: len(wanted), 1 for a
\* character, 0 for the NUL character.
C7_AdvanceEqualsConsumed ==
    (Recd("accept") /\ ret = "true" /\ X.k \in {"str", "char"})
        => uu.lp = MatchStart(X, arg.u) + MatchLen(X)

\* a literal matched behind the blanks the matcher skipped
C7_Witness ==
    /\ Recd("accept") /\ ret = "true" /\ X.k = "str" /\ MatchLen(X) > 0
    /\ MatchStart(X, arg.u) > arg.u.lp
    /\ uu.lp = MatchStart(X, arg.u) + MatchLen(X)

\* C8  (as claimed) after a successful accept(target), for every target, an
\* accept of the same target made at once does not match again where the
\* first one did: if it succeeds it has consumed text beyond the cursor.
C8_NoRematch ==
    (Recd("accept") /\ ret = "true")
        => \A r \in __accept(X, uu, FALSE, out) :
              r.ret = "true" => r.u.lp > uu.lp

\* targets whose every match is at least one byte long
Consuming(x) ==
    \/ x.k = "str" /\ x.s # <<>>
    \/ x.k = "char" /\ x.s[1] # NUL
    \/ x.k = "term" /\ uuterms[x.t].fn # "_eol_"

\* C8  (amended) the same, for the targets whose match is at least one byte
\* long: the first accept has moved the cursor past its match, and a second
\* success lies wholly beyond it.
C8_NoRematchConsuming ==
    (Recd("accept") /\ ret = "true" /\ Consuming(X))
        => /\ uu.lp > arg.u.lp
           /\ \A r \in __accept(X, uu, FALSE, out) :
                 r.ret = "true" => r.u.lp > uu.lp

\* a literal matched, and the same literal would match again further on
C8_Witness ==
    /\ Recd("accept") /\ ret = "true" /\ X.k = "str" /\ X.s # <<>>
    /\ \E r \in __accept(X, uu, FALSE, out) : r.ret = "true" /\ r.u.lp > uu.lp

\* the scan states in which accept(ts[1]); ...; accept(ts[k]) all returned
\* true, made one after the other from u
RECURSIVE Accepted(_, _, _, _)
Accepted(ts, k, u, o) ==
    IF k = 0 THEN {u}
    ELSE {r.u : r \in {q \in UNION {__accept(ts[k], v, FALSE, o) :
                                     v \in Accepted(ts, k - 1, u, o)} :
                         q.ret = "true"}}

\* C9  acceptall(t1..tn) is the conjunction of accept(t1), ..., accept(tn)
\* made left to right, each from the cursor the one before left: it stops at
\* the first target that does not match, it returns true iff all match, and
\* then the scan state is the one the n accepts leave.
C9_AcceptAllIsSequence ==
    Recd("acceptall") =>
        /\ (ret = "true") <=> (matched = nargs)
        /\ ret = "true" => uu \in Accepted(arg.ts, nargs, arg.u, arg.o)
        /\ ret # "true" =>
              /\ matched < nargs
              /\ \E v \in Accepted(arg.ts, matched, arg.u, arg.o) :
                 \E r \in __accept(arg.ts[matched + 1], v, FALSE, arg.o) :
                    /\ r.ret = ret
                    /\ uu = IF ret = "false" THEN [r.u EXCEPT !.lp = arg.u.lp]
                            ELSE r.u

\* three targets or more, all matched from a cursor already advanced
C9_Witness ==
    /\ Recd("acceptall") /\ ret = "true"
    /\ nargs >= 3 /\ matched = nargs
    /\ arg.u.lp > 0 /\ uu.lp > arg.u.lp

\* the default text of a failed expect(terminal)
Expected(t) ==
    "expected " \o uuterms[t].name \o " at pos " \o ToString(uuerrorpos(uu))

\* C10  (as claimed) a failed expect(terminal) without an override message
\* stores exactly "expected <name> at pos <pos>", also when the scanner has
\* attached a detail with fail(lp, msg).
C10_DefaultMessageOnly ==
    (Recd("expect") /\ raisedBy = "expect" /\ X.k = "term" /\ arg.msg = NULLS)
        => uu.msg = Expected(X.t)

\* C10  (amended) it stores "expected <name> at pos <pos>", followed by
\* " (<detail>)" when the scanner has attached a detail with fail(lp, msg).
C10_DefaultMessageAndDetail ==
    (Recd("expect") /\ raisedBy = "expect" /\ X.k = "term" /\ arg.msg = NULLS)
        => uu.msg = IF uu.failmsg = NULLS THEN Expected(X.t)
                    ELSE Expected(X.t) \o " (" \o uu.failmsg \o ")"

\* expect(_app_) failed behind skipped blanks, the scanner attached a detail
C10_Witness ==
    /\ Recd("expect") /\ raisedBy = "expect" /\ X.k = "term"
    /\ arg.msg = NULLS /\ uu.failmsg = DETAIL
    /\ uu.lpfail > uu.lp
    /\ uu.msg = Expected(X.t) \o " (" \o DETAIL \o ")"

\* how the default message names the target
Shown(x) ==
    CASE x.k = "str"  -> "\"" \o Text(x.s) \o "\""
      [] x.k = "char" -> IF x.s[1] = NUL THEN "'\\000'" ELSE "'" \o x.s[1] \o "'"
      [] x.k = "term" -> uuterms[x.t].name

\* the message of the recorded expect up to the position: the override text,
\* or the default form
Subject == IF arg.msg # NULLS THEN arg.msg ELSE "expected " \o Shown(X)

\* the detail a terminal's scanner attached, as the message shows it
Detail ==
    IF X.k = "term" /\ uu.failmsg # NULLS THEN " (" \o uu.failmsg \o ")" ELSE ""

C12_ExpectedBeforeOverride ==
    (Recd("expect") /\ raisedBy = "expect" /\ X.k = "term" /\ arg.msg # NULLS)
        => uu.msg = "expected " \o arg.msg \o " at pos "
                       \o ToString(uuerrorpos(uu)) \o Detail

\* C13  The position in the message of a failed expect is
\* failPosition - line + 1, failPosition being where the failed match was
\* tried, past the blanks the matcher skipped; on the line "foo + " with the
\* cursor behind "+", a failed expect(_int_) stores "... at pos 7".
C13_FailPosition ==
    (Recd("expect") /\ raisedBy = "expect")
        => /\ uu.lpfail = MatchStart(X, arg.u)
           /\ uu.msg = Subject \o " at pos "
                          \o ToString((MatchStart(X, arg.u) - 0) + 1) \o Detail

\* the case of the line "foo + "
C13_Witness ==
    /\ Recd("expect") /\ raisedBy = "expect"
    /\ arg.u.line = <<"f", "o", "o", " ", "+", " ">> /\ arg.u.lp = 5
    /\ X = Term(TermId("_int_")) /\ arg.msg = NULLS
    /\ uu.msg = "expected _int_ at pos 7"

\* texts of the form "... at pos N", N a 1-based position in the line l
AtPos(l) ==
    {h \o " at pos " \o ToString(n) \o d :
        h \in (Overrides \ {NULLS}) \cup {"expected " \o Shown(x) : x \in Targets}
              \cup {"syntax error"},
        n \in 1..(Len(l) + 1),
        d \in {"", " (" \o DETAIL \o ")"}}

\* C14  (as claimed) every error the handler observes, raised by uuerror or
\* by a failed expect, carries a message of the form "... at pos N", N the
\* 1-based position in the current line.
C14_EveryErrorHasPosition ==
    pc = "handler" => uu.msg \in AtPos(uu.line)

\* C14  (amended) an error raised by a failed expect carries "... at pos N",
\* N = uu.lpfail - uu.line + 1 within the line or at its end; an error raised
\* by uuerror carries the text the application formatted, which for the
\* overflow of _int_ is "integer overflow" with no position.
C14_ExpectErrorHasPosition ==
    pc = "handler" =>
        /\ raisedBy = "expect" =>
              /\ uu.lpfail \in 0..Len(uu.line)
              /\ uu.msg = Subject \o " at pos " \o ToString(uu.lpfail + 1)
                             \o Detail
        /\ raisedBy = "uuerror" => uu.msg = "integer overflow"

\* the handler observes the overflow raised inside an expect(_int_)
C14_Witness ==
    /\ pc = "handler" /\ Recd("expect") /\ X = Term(TermId("_int_"))
    /\ raisedBy = "uuerror" /\ uu.msg = "integer overflow"

\* the recorded accept of a non-empty literal found its text at the position
\* it compares at
PrefixAt ==
    /\ Recd("accept") /\ X.k = "str" /\ X.s # <<>>
    /\ CharAt(arg.u.line, arg.u.lp) # NUL
    /\ LET p == MatchStart(X, arg.u)
       IN  /\ strlen(arg.u.line, p) >= Len(X.s)
           /\ SubSeq(arg.u.line, p + 1, p + Len(X.s)) = X.s

\* the last character of the literal and the character behind the prefix
Last   == X.s[Len(X.s)]
Behind == CharAt(arg.u.line, MatchStart(X, arg.u) + Len(X.s))

\* C15  (as claimed) when wanted ends in a letter and its text is found, the
\* match fails whenever the character behind it is alphanumeric, a letter or
\* a digit, and succeeds otherwise.
C15_AlnumBoundary ==
    (PrefixAt /\ isalpha(Last)) => ((ret = "false") <=> isalnum(Behind))

\* C15  (amended) when wanted ends in a letter and its text is found, the
\* match fails iff the character behind it is a letter; behind a digit or any
\* other character it succeeds with the cursor behind the text.  "if" fails
\* on "ifdef x" and succeeds on "if x" with the cursor at " x".
C15_AlphaBoundary ==
    (PrefixAt /\ isalpha(Last))
        => /\ (ret = "false") <=> isalpha(Behind)
           /\ ret = "false" => (uu.lp = arg.u.lp /\ uu.lpfail = MatchStart(X, arg.u))
           /\ ret # "false" =>
                 (ret = "true" /\ uu.lp = MatchStart(X, arg.u) + Len(X.s))

\* "if" matched on "if x"
C15_Witness ==
    /\ PrefixAt /\ X.s = <<"i", "f">>
    /\ arg.u.line = <<"i", "f", " ", "x">> /\ arg.u.lp = 0
    /\ ret = "true" /\ uu.lp = 2

\* C16  When wanted ends in a digit and its text is found, the match fails
\* iff the character behind it is a digit: "12" fails on "123" and succeeds
\* on "12 ".  When wanted ends in punctuation, finding its text is a match,
\* whatever is behind it.
C16_DigitBoundary ==
    /\ (PrefixAt /\ isdigit(Last))
          => /\ (ret = "false") <=> isdigit(Behind)
             /\ ret # "false" =>
                   (ret = "true" /\ uu.lp = MatchStart(X, arg.u) + Len(X.s))
    /\ (PrefixAt /\ ~isalpha(Last) /\ ~isdigit(Last))
          => (ret = "true" /\ uu.lp = MatchStart(X, arg.u) + Len(X.s))
    /\ (PrefixAt /\ X.s = <<"1", "2">> /\ arg.u.lp = 0)
          => /\ arg.u.line = <<"1", "2", "3">> => ret = "false"
             /\ arg.u.line = <<"1", "2", " ">> => ret = "true"

\* "12" did not match on "123"
C16_Witness ==
    /\ PrefixAt /\ X.s = <<"1", "2">>
    /\ arg.u.line = <<"1", "2", "3">> /\ arg.u.lp = 0
    /\ ret = "false" /\ uu.lp = 0

RECURSIVE DigitRun(_, _)
DigitRun(l, p) ==
    IF isdigit(CharAt(l, p)) THEN <<DigitVal(CharAt(l, p))>> \o DigitRun(l, p + 1)
    ELSE <<>>

RECURSIVE DigitsOf(_)
DigitsOf(n) == IF n < 10 THEN <<n>> ELSE Append(DigitsOf(n \div 10), n % 10)

RECURSIVE StripZeros(_)
StripZeros(ds) ==
    IF Len(ds) > 1 /\ Head(ds) = 0 THEN StripZeros(Tail(ds)) ELSE ds

\* a <= b for digit strings of one length
RECURSIVE LexLeq(_, _)
LexLeq(a, b) ==
    \/ a = <<>>
    \/ Head(a) < Head(b)
    \/ Head(a) = Head(b) /\ LexLeq(Tail(a), Tail(b))

\* the number a digit string writes is at most INT_MAX
Fits(ds) ==
    LET s == StripZeros(ds)
        m == DigitsOf(INT_MAX)
    IN  Len(s) < Len(m) \/ (Len(s) = Len(m) /\ LexLeq(s, m))

\* the number a digit string writes
RECURSIVE ValueOf(_)
ValueOf(ds) ==
    IF ds = <<>> THEN 0
    ELSE ValueOf(SubSeq(ds, 1, Len(ds) - 1)) * 10 + ds[Len(ds)]

\* C18  _int_ on a run of decimal digits: either the call succeeds with uu.i
\* the exact value of the run, which is then at most INT_MAX, and the cursor
\* behind the run, or it raises "integer overflow"; it raises exactly when
\* the value is larger than INT_MAX, as for the digits of INT_MAX + 1.
C18_IntOverflow ==
    ((Recd("accept") \/ Recd("expect")) /\ X = Term(TermId("_int_")))
        => LET p  == skipspace(arg.u.line, arg.u.lp)
               ds == DigitRun(arg.u.line, p)
           IN  ds # <<>> =>
                  IF Fits(ds)
                  THEN /\ ret = "true"
                       /\ uu.i = ValueOf(ds) /\ uu.i <= INT_MAX
                       /\ uu.lp = p + Len(ds)
                  ELSE /\ ret = "raise" /\ raisedBy = "uuerror"
                       /\ uu.msg = "integer overflow"
                       /\ uu.i = arg.u.i /\ uu.lp = arg.u.lp

\* the digits of INT_MAX + 1 raised the error
C18_Witness ==
    /\ Recd("accept") /\ X = Term(TermId("_int_"))
    /\ arg.u.line = <<"2", "1", "4", "7", "4", "8", "3", "6", "4", "8">>
    /\ arg.u.lp = 0
    /\ ret = "raise" /\ pc = "handler" /\ uu.msg = "integer overflow"

\* the ids and the slots of the table: dense from 0 in declaration order
Registry ==
    /\ UUTERMCOUNT = Len(UUTERMINALS)
    /\ DOMAIN uuterms = 0..(UUTERMCOUNT - 1)
    /\ TermId("_ident_") = 0 /\ TermId("_int_") = 1 /\ TermId("_eol_") = 2
    /\ \A t \in 0..(UUTERMCOUNT - 1) :
          /\ TermId(UUTERMINALS[t + 1]) = t
          /\ uuterms[t].fn = UUTERMINALS[t + 1]
          /\ uuterms[t].name \in
                {UUTERMINALS[t + 1]}
                \cup (IF t = TermId("_eol_") THEN {"end of line"} ELSE {})

C20_WhitespaceRule ==
    (Recd("accept") /\ X.k = "char" /\ isspace(X.s[1])
        /\ isspace(CharAt(arg.u.line, arg.u.lp)))
        => /\ ret = "true"
           /\ uu.lp = arg.u.lp + 1
           /\ arg.res => out.c = X.s[1]

\* a blank wanted, a tab at the cursor and a blank behind it
C20_Witness ==
    /\ Recd("accept") /\ X = Chr(" ")
    /\ CharAt(arg.u.line, arg.u.lp) = "\t"
    /\ isspace(CharAt(arg.u.line, arg.u.lp + 1))
    /\ ret = "true" /\ uu.lp = arg.u.lp + 1

\* C21  Character matcher, general rule: when the whitespace rule does not
\* apply, with p the first position at or behind the cursor that holds no
\* whitespace, the match succeeds iff the character at p is wanted; then the
\* cursor is p + 1, or p when p is the terminator (wanted is NUL); when it
\* fails, uu.lpfail = p and the cursor is where it was.
C21_GeneralRule ==
    (Recd("accept") /\ X.k = "char"
        /\ ~(isspace(X.s[1]) /\ isspace(CharAt(arg.u.line, arg.u.lp))))
        => LET p == skipspace(arg.u.line, arg.u.lp)
           IN  /\ (ret = "true") <=> (CharAt(arg.u.line, p) = X.s[1])
               /\ ret = "true" =>
                     /\ uu.lp = IF CharAt(arg.u.line, p) = NUL THEN p ELSE p + 1
                     /\ arg.res => out.c = X.s[1]
               /\ ret # "true" =>
                     (ret = "false" /\ uu.lpfail = p /\ uu.lp = arg.u.lp)

\* the NUL character matched on the terminator behind skipped blanks
C21_Witness ==
    /\ Recd("accept") /\ X = Chr(NUL) /\ ret = "true"
    /\ skipspace(arg.u.line, arg.u.lp) > arg.u.lp
    /\ uu.lp = Len(arg.u.line)

\* C22  (as claimed) String-literal matcher: blanks at the cursor are skipped
\* iff wanted does not begin with whitespace, which gives p; the match fails
\* at p when fewer than len(wanted) characters are left from p or the text at
\* p differs; every success leaves uu.len = len(wanted), uu.lpstart = p and
\* uu.lp = p + len(wanted), and a res destination holds p.
C22_LiteralMatcher ==
    (Recd("accept") /\ X.k = "str")
        => LET p == MatchStart(X, arg.u)
               l == Len(X.s)
           IN  /\ (strlen(arg.u.line, p) < l
                     \/ SubSeq(arg.u.line, p + 1, p + l) # X.s)
                     => (ret = "false" /\ uu.lpfail = p /\ uu.lp = arg.u.lp)
               /\ ret = "true" =>
                     /\ uu.len = l
                     /\ uu.lpstart = p
                     /\ uu.lp = p + l
                     /\ arg.res => out.p = p

\* the state the scanning function of a terminal is entered in by the
\* recorded call, uu.lpfail being f
TermEntry(f) ==
    LET p == skipspace(arg.u.line, arg.u.lp)
    IN  [arg.u EXCEPT !.lpstart = p, !.lpfail = f, !.failmsg = NULLS, !.len = 0]

\* the recorded accept of a declared terminal did what the scanning function
\* of the terminal does when given p and entered in the state u1
RunsScanner(u1) ==
    LET p == skipspace(arg.u.line, arg.u.lp)
    IN  /\ \E r \in CallFn(UUTERMINALS[X.t + 1], p, u1, arg.res, arg.o) :
              r.ret = ret /\ r.u = uu /\ r.out = out
        /\ UUTERMINALS[X.t + 1] = "_eol_" =>
              /\ uu = u1
              /\ (ret = "true") <=> (CharAt(arg.u.line, p) = NUL)

\* C23  (as claimed) Terminal matcher: the scanning function of a declared
\* terminal is entered with the blanks skipped to p, uu.lpstart = p, no fail
\* position (uu.lpfail NULL), no detail (uu.failmsg NULL) and uu.len = 0; it
\* is given p, and the matcher returns what it returns.
C23_EntryStateNoFailPos ==
    (Recd("accept") /\ X.k = "term" /\ X.t \in 0..(UUTERMCOUNT - 1))
        => RunsScanner(TermEntry(NULLP))

\* what __scan_term does: the same, with uu.lpfail = p on entry, the fail
\* position preset to the start of the scan
C23_EntryStateFailAtStart ==
    (Recd("accept") /\ X.k = "term" /\ X.t \in 0..(UUTERMCOUNT - 1))
        => RunsScanner(TermEntry(skipspace(arg.u.line, arg.u.lp)))

\* _eol_, which changes nothing, was run behind skipped blanks after an
\* earlier scan had left a detail: the state it was entered in is on show
C23_EntryShown ==
    /\ Recd("accept") /\ X = Term(TermId("_eol_")) /\ ret = "false"
    /\ arg.u.failmsg = DETAIL /\ uu.failmsg = NULLS
    /\ uu.lpstart > arg.u.lp /\ uu.lpfail = uu.lpstart /\ uu.len = 0
    /\ uu.lp = arg.u.lp

\* where the match of the recorded call began
MatchBegin ==
    IF X.k = "term" THEN skipspace(arg.u.line, arg.u.lp)
    ELSE MatchStart(X, arg.u)

\* C24  (as claimed) after a successful accept or expect, uu.len is the
\* length in bytes of the text that call matched, for a string literal, a
\* character and a terminal of the example that consumes text alike.
C24_LenOfLastMatch ==
    ((Recd("accept") \/ Recd("expect")) /\ ret = "true"
        /\ (X.k = "term" => uuterms[X.t].fn \in {"_ident_", "_int_"}))
        => uu.len = uu.lp - MatchBegin

\* what the run of expr() on the line l prints when nothing of an earlier
\* line is left in uu, as the claim has it: the value, or the message stored
\* for the handler
FreshLine(l) == [uu0 EXCEPT !.line = l, !.lp = 0, !.msg = "", !.errjmp = TRUE]

OneOutput(l) ==
    {IF r.k = "val" THEN <<" = " \o ToString(r.v)>> ELSE <<r.u.msg>>
     : r \in {q \in expr(FreshLine(l), <<>>) : q.k # "crash"}}

\* C25  (as claimed) the read loop of the example: every line read ends back
\* in the loop with exactly one thing printed, the value of the expression or
\* the stored message, the handler falling through to the next getline; each
\* line is scanned from its start, and what is printed for it is what the
\* line alone determines, whatever the lines before it did.
C25_OneOutputPerLine ==
    /\ pc # "crash"
    /\ pc = "handler" => (depth = 0 /\ printed = <<>>)
    /\ pc = "parse" => (uu.lp = 0 /\ printed = <<>>)
    /\ (pc = "getline" /\ calls > 0) =>
          /\ Len(printed) = 1
          /\ printed \in OneOutput(uu.line)

\* C26  (as claimed) Cursor bounds: after an accept, an expect or an
\* acceptall of characters and string literals, CHAR('\0') included, made
\* with the cursor inside the line, the cursor is between the start of the
\* line and its terminator, and no matcher of the call has read the line
\* outside these bounds or wanted in front of its first character or behind
\* its terminator.
C26_CursorAndReadsInBounds ==
    (arg # NoArg /\ \A k \in 1..Len(arg.ts) : arg.ts[k].k \in {"str", "char"})
        => /\ uu.lp \in 0..Len(uu.line)
           /\ \A k \in 1..Len(arg.ts) :
                 \A v \in Accepted(arg.ts, k - 1, arg.u, arg.o) :
                    /\ Reads(arg.ts[k], v).line \subseteq 0..Len(v.line)
                    /\ Reads(arg.ts[k], v).wanted \subseteq 0..Len(arg.ts[k].s)

\* C27  (as claimed) the message stored for the handler fits _uumsgbuf: after
\* a failed expect, whatever the target, the override text and the detail,
\* and after a uuerror, the text and its terminator take 80 bytes at most.
C27_MessageFitsBuffer ==
    pc = "handler" => Len(uu.msg) + 1 <= sizeof_uumsgbuf

\* C28  (as claimed) a cleanup hook runs at most once for each time it is
\* registered, and every raise ends in the on_uuerror block, also when the
\* hook itself calls uuerror while it runs.
C28_HookOnceAndHandlerReached ==
    /\ hookRuns <= hookRegs
    /\ pc # "crash"

\* C29  (as claimed) acceptall leaves no partial progress whenever it does
\* not return true: also when the scanning function of a terminal raises an
\* error with uuerror after earlier targets of the sequence have matched, the
\* cursor the handler finds is the cursor from before the first target.
C29_NoPartialProgressOnRaise ==
    (Recd("acceptall") /\ ret # "true") => uu.lp = arg.u.lp

\* C30  The detail in parentheses behind the message of a failed
\* expect(terminal) is the one the scanning function attached with
\* fail(lp, msg) in that very scan: a detail an earlier failed accept or
\* expect has left in uu.failmsg is in no later message, of a terminal, a
\* literal or a character.
C30_DetailFromSameScan ==
    (Recd("expect") /\ raisedBy = "expect") =>
        LET base == Subject \o " at pos " \o ToString(uuerrorpos(uu))
            p    == skipspace(arg.u.line, arg.u.lp)
        IN  IF X.k = "term" /\ uuterms[X.t].fn = "_app_"
            THEN \E r \in _scan__app_(p, TermEntry(p), arg.res, arg.o) :
                    /\ r.ret = "false"
                    /\ uu.failmsg = r.u.failmsg
                    /\ uu.msg = IF r.u.failmsg = NULLS THEN base
                                ELSE base \o " (" \o r.u.failmsg \o ")"
            ELSE /\ uu.msg = base
                 /\ uu.failmsg = NULLS

\* an earlier scan had left a detail; expect(_eol_) then failed, and its
\* message has none
C30_Witness ==
    /\ Recd("expect") /\ raisedBy = "expect" /\ X = Term(TermId("_eol_"))
    /\ arg.u.failmsg = DETAIL /\ arg.msg = NULLS
    /\ uu.msg = Expected(X.t)

====
